---- MODULE Spec2Model ----
(***************************************************************************)
(* The programs of the pipeline, each with its own specification:          *)
(*   Spec      longitudinal statistics (src/bin/longitudinal_stats.py)     *)
(*   ParseSpec parse_timepoint_info of the same file                       *)
(*   QcSpec    MRIQC outlier flags (src/bin/qc_aggregator.py)              *)
(*   AdniSpec  organize_dataset (src/prepare_adni_data.py)                 *)
(*   HeurSpec  infotodict (src/bin/heuristic.py)                           *)
(* The variables of a program that has not run stay at their idle values.  *)
(*                                                                         *)
(* For the longitudinal statistics the state is the measurement table `df` *)
(* that load_longitudinal_stats builds row by row, the position of         *)
(* calculate_longitudinal_stats, and the two result tables with the files  *)
(* they are saved to.                                                      *)
(*                                                                         *)
(* Floating point numbers are modelled as exact rationals [k, n, d] with   *)
(* the special values NaN and Inf; Python's None is NoneV.  A missing      *)
(* value or ordinal of the table is NaN, as pandas stores it.              *)
(***************************************************************************)
EXTENDS Integers, Sequences, FiniteSets, TLC

\* Largest number of rows load_longitudinal_stats appends in the model.
MaxRows == 3

\* Largest number of pieces (IdTokens) a subject identifier is made of.
MaxIdTokens == 4

\* Largest number of MRIQC files aggregate_qc_metrics reads in the model.
MaxQcRows == 1

\* Largest number of manifest rows organize_dataset processes in the model.
MaxManifestRows == 3

\* Largest number of series in the seqinfo given to infotodict.
MaxSeries == 2

VARIABLES df, pc, scipy_checks_x, slope_rows, change_rows, output_slopes, output_percent,
          subject_id, parsed,
          qc_df, qc_report,
          create_links, manifest, subject_visits_dict, bids_filenames, output_dir, stats,
          seqinfo, info

\* The state of qc_aggregator.py, of prepare_adni_data.py and of heuristic.py.
qc_vars == <<qc_df, qc_report>>

adni_vars == <<create_links, manifest, subject_visits_dict, bids_filenames, output_dir, stats>>

heur_vars == <<seqinfo, info>>

vars == <<df, pc, scipy_checks_x, slope_rows, change_rows, output_slopes, output_percent,
          subject_id, parsed, qc_vars, adni_vars, heur_vars>>

(***************************************************************************)
(* Numbers                                                                 *)
(***************************************************************************)
Abs(i) == IF i < 0 THEN -i ELSE i

RECURSIVE Gcd(_, _)
Gcd(a, b) == IF b = 0 THEN a ELSE Gcd(b, a % b)

\* The float n/d (d # 0), in lowest terms with a positive denominator.
Rat(n, d) ==
    LET g == Gcd(Abs(n), Abs(d))
        s == IF d < 0 THEN -1 ELSE 1
    IN  [k |-> "rat", n |-> (s * n) \div g, d |-> Abs(d) \div g]

F(i) == Rat(i, 1)

NaN == [k |-> "nan", n |-> 0, d |-> 1]

Inf == [k |-> "inf", n |-> 0, d |-> 1]

NoneV == [k |-> "none", n |-> 0, d |-> 1]

\* np.isnan / pd.isna of a table cell.
IsNaN(v) == v.k = "nan"

\* The square root of a non-negative rational, kept symbolic.
Sqrt(q) == [k |-> "sqrt", n |-> q.n, d |-> q.d]

\* The two-sided p-value 2*sf(|t|, n-2) of the t statistic of a fit with
\* n points and squared correlation r2 (t = r*sqrt(df/((1-r)(1+r)))), kept
\* symbolic; r = 0 gives t = 0 and the p-value 1.0.
TwoSidedP(r2) == IF r2.n = 0 THEN F(1) ELSE [k |-> "tsf", n |-> r2.n, d |-> r2.d]

RECURSIVE SumSeq(_)
SumSeq(s) == IF s = <<>> THEN 0 ELSE Head(s) + SumSeq(Tail(s))

RECURSIVE Flatten(_)
Flatten(ss) == IF ss = <<>> THEN <<>> ELSE Head(ss) \o Flatten(Tail(ss))

Range(s) == {s[i] : i \in 1..Len(s)}

(***************************************************************************)
(* parse_timepoint_info                                                    *)
(*                                                                         *)
(* A str is the sequence of its characters.                                *)
(***************************************************************************)
SesMarker == <<"_", "s", "e", "s", "-">>

TpMarker == <<"_", "t", "p">>

\* An Optional[str]: None, or the str s.
NoStr == [some |-> FALSE, s |-> <<>>]

Some(s) == [some |-> TRUE, s |-> s]

\* s.find(sub) + 1: the first position at which sub occurs in s, 0 if none.
Find(s, sub) ==
    LET At == {i \in 1..(Len(s) - Len(sub) + 1) : SubSeq(s, i, i + Len(sub) - 1) = sub}
    IN  IF At = {} THEN 0 ELSE CHOOSE i \in At : \A j \in At : i <= j

\* sub in s
Contains(s, sub) == Find(s, sub) # 0

\* s.split(sep): s is cut at every occurrence of sep, left to right.
RECURSIVE Split(_, _)
Split(s, sep) ==
    LET i == Find(s, sep)
    IN  IF i = 0 THEN <<s>>
        ELSE <<SubSeq(s, 1, i - 1)>> \o Split(SubSeq(s, i + Len(sep), Len(s)), sep)

Digits == <<"0", "1", "2", "3", "4", "5", "6", "7", "8", "9">>

\* str.isdigit of an ASCII character
IsDigit(c) == \E v \in 1..10 : Digits[v] = c

DigitVal(c) == (CHOOSE v \in 1..10 : Digits[v] = c) - 1

\* The value of a str of decimal digits (leading zeros allowed).
RECURSIVE DigitsValue(_)
DigitsValue(s) ==
    IF s = <<>> THEN 0
    ELSE 10 * DigitsValue(SubSeq(s, 1, Len(s) - 1)) + DigitVal(s[Len(s)])

\* s.strip() of the blanks at both ends
RECURSIVE Strip(_)
Strip(s) ==
    IF s = <<>> THEN s
    ELSE IF Head(s) = " " THEN Strip(Tail(s))
    ELSE IF s[Len(s)] = " " THEN Strip(SubSeq(s, 1, Len(s) - 1))
    ELSE s

\* int(s) of a str: blanks around the literal are ignored, then an optional
\* sign, then decimal digits, in which single underscores may stand between
\* two digits.  ok = FALSE is ValueError.
IntOf(s) ==
    LET t == Strip(s)
        signed == t # <<>> /\ Head(t) \in {"+", "-"}
        body == IF signed THEN Tail(t) ELSE t
        wellFormed ==
            /\ body # <<>>
            /\ IsDigit(body[1])
            /\ IsDigit(body[Len(body)])
            /\ \A i \in 1..Len(body) : IsDigit(body[i]) \/ body[i] = "_"
            /\ \A i \in 1..(Len(body) - 1) : ~(body[i] = "_" /\ body[i + 1] = "_")
        magnitude == DigitsValue(SelectSeq(body, IsDigit))
    IN  [ok |-> wellFormed,
         val |-> IF ~wellFormed THEN 0
                 ELSE IF signed /\ Head(t) = "-" THEN -magnitude ELSE magnitude]

\* The decimal digits of a natural number, without leading zeros.
RECURSIVE NatStr(_)
NatStr(n) ==
    IF n < 10 THEN <<Digits[n + 1]>>
    ELSE NatStr(n \div 10) \o <<Digits[(n % 10) + 1]>>

\* f"{i}" of an int
FormatInt(i) == IF i < 0 THEN <<"-">> \o NatStr(-i) ELSE NatStr(i)

\* The branch `if '_ses-' in subject_id`.
SessionRule(subject_id_) ==
    LET parts == Split(subject_id_, SesMarker)
        tp == IntOf(SelectSeq(parts[2], IsDigit))
    IN  [base_id |-> parts[1],
         session_id |-> Some(<<"s", "e", "s", "-">> \o parts[2]),
         tp_num |-> IF tp.ok THEN F(tp.val) ELSE NoneV]

\* The branch `elif '_tp' in subject_id`.
TimepointRule(subject_id_) ==
    LET parts == Split(subject_id_, TpMarker)
        tp == IntOf(parts[2])
    IN  [base_id |-> parts[1],
         session_id |-> IF tp.ok THEN Some(<<"t", "p">> \o FormatInt(tp.val))
                        ELSE Some(<<"t", "p">> \o parts[2]),
         tp_num |-> IF tp.ok THEN F(tp.val) ELSE NoneV]

\* The else branch returning an empty label instead of None.
NoTimepointInfoEmptyLabel(subject_id_) ==
    [base_id |-> subject_id_, session_id |-> Some(<<>>), tp_num |-> NoneV]

\* The else branch: no timepoint information.
NoTimepointInfo(subject_id_) ==
    [base_id |-> subject_id_, session_id |-> NoStr, tp_num |-> NoneV]

\* The two markers tested in the other order.
ParseTimepointTpFirst(subject_id_) ==
    IF Contains(subject_id_, TpMarker) THEN TimepointRule(subject_id_)
    ELSE IF Contains(subject_id_, SesMarker) THEN SessionRule(subject_id_)
    ELSE NoTimepointInfo(subject_id_)

\* parse_timepoint_info(subject_id)
ParseTimepointInfo(subject_id_) ==
    IF Contains(subject_id_, SesMarker) THEN SessionRule(subject_id_)
    ELSE IF Contains(subject_id_, TpMarker) THEN TimepointRule(subject_id_)
    ELSE NoTimepointInfo(subject_id_)

(***************************************************************************)
(* The measurement table                                                   *)
(***************************************************************************)
\* The (base_subject, measure_type, structure) keys of the model, in the
\* sorted order in which groupby iterates over them.
GroupKeys ==
    << <<"sub-A", "thickness", "lh_precuneus">>,
       <<"sub-B", "volume", "Hippocampus">> >>

\* Timepoint ids (the part of a directory name before ".long.").
TimepointIds == {"v_ses-01", "v_ses-02", "v_ses-03", "v_ses-bl"}

\* tp_num as load_longitudinal_stats gets it from parse_timepoint_info for
\* the ids above: the digits after "_ses-" as an integer, None without a
\* digit (a missing number is NaN in the table).
LoadedTimepointNum(timepoint_id) ==
    CASE timepoint_id = "v_ses-01" -> F(1)
      [] timepoint_id = "v_ses-02" -> F(2)
      [] timepoint_id = "v_ses-03" -> F(3)
      [] OTHER -> NaN

\* The values the stats files of the model give for a key at a timepoint
\* ("nan" in a stats file parses to the float NaN).  For the first key:
\* the series 10, 20, 15 at the ordinals 1, 2, 3, with a zero value at the
\* first, zero, equal and missing values at the second, and a value
\* without an ordinal.
ValuesAt(key, timepoint_id) ==
    IF key = GroupKeys[1]
    THEN CASE timepoint_id = "v_ses-01" -> {F(0), F(10)}
           [] timepoint_id = "v_ses-02" -> {NaN, F(0), F(10), F(20)}
           [] timepoint_id = "v_ses-03" -> {F(15)}
           [] OTHER -> {F(10)}
    ELSE CASE timepoint_id = "v_ses-01" -> {F(10)}
           [] timepoint_id = "v_ses-02" -> {F(20)}
           [] OTHER -> {}

\* One row appended by load_longitudinal_stats (the 'session' column, which
\* no computation reads, is left out).
MeasurementRow(key, timepoint_id, value) ==
    [base_subject |-> key[1],
     timepoint_id |-> timepoint_id,
     timepoint_num |-> LoadedTimepointNum(timepoint_id),
     measure_type |-> key[2],
     structure |-> key[3],
     value |-> value]

\* The rows the model draws from.
RowDomain ==
    UNION {{MeasurementRow(GroupKeys[k], t, v) : v \in ValuesAt(GroupKeys[k], t)} :
             k \in 1..Len(GroupKeys), t \in TimepointIds}

KeyOf(row) == <<row.base_subject, row.measure_type, row.structure>>

\* df.groupby([...]): the positions in d of the rows of one key, in arrival
\* order.
RECURSIVE GroupIdxFrom(_, _, _)
GroupIdxFrom(d, key, i) ==
    IF i > Len(d) THEN <<>>
    ELSE (IF KeyOf(d[i]) = key THEN <<i>> ELSE <<>>) \o GroupIdxFrom(d, key, i + 1)

GroupIdx(d, key) == GroupIdxFrom(d, key, 1)

\* Rows i and j of d have the same group and the same number as sort key.
SameSortKey(d, i, j) ==
    /\ KeyOf(d[i]) = KeyOf(d[j])
    /\ ~IsNaN(d[i].timepoint_num)
    /\ d[i].timepoint_num = d[j].timepoint_num

\* The orders in which the unstable default sort (quicksort) may leave
\* equal keys: tie[i] ranks row i among the rows with its sort key.  Only
\* the ranks within a set of rows with equal keys matter, so tie permutes
\* each such set and leaves the other rows alone.
TieOrders(d) ==
    {tie \in Permutations(1..Len(d)) :
        \A i \in 1..Len(d) : tie[i] = i \/ SameSortKey(d, i, tie[i])}

RECURSIVE ArgSort(_, _, _)
ArgSort(d, S, tie) ==
    IF S = {} THEN <<>>
    ELSE LET m == CHOOSE i \in S : \A j \in S \ {i} :
                    \/ d[i].timepoint_num.n < d[j].timepoint_num.n
                    \/ /\ d[i].timepoint_num.n = d[j].timepoint_num.n
                       /\ tie[i] < tie[j]
         IN  <<m>> \o ArgSort(d, S \ {m}, tie)

\* The sort forgotten: the group is left in arrival order.
SortValuesUnsorted(d, g, tie) == g

\* group.sort_values('timepoint_num') with the defaults kind='quicksort',
\* na_position='last': the rows with a number ascending (equal numbers in
\* the order of tie), then the rows without one in arrival order.
SortValues(d, g, tie) ==
    ArgSort(d, Range(SelectSeq(g, LAMBDA i : ~IsNaN(d[i].timepoint_num))), tie)
    \o SelectSeq(g, LAMBDA i : IsNaN(d[i].timepoint_num))

\* The timepoint_num column holds no number at all: pandas keeps it as an
\* object column of None.
ObjectOrdinals(d) == \A i \in 1..Len(d) : IsNaN(d[i].timepoint_num)

(***************************************************************************)
(* calculate_slopes                                                        *)
(***************************************************************************)
\* scipy.stats.linregress(x, y) as called by calculate_slopes; y is finite,
\* x may hold NaN.  checks_x: the build's scipy raises ValueError when all
\* x are identical (older builds divide by the zero variance instead).
Linregress(x, y, checks_x) ==
    LET n == Len(x)
        hasNaN == \E i \in 1..n : IsNaN(x[i])
        Sx == SumSeq([i \in 1..n |-> x[i].n])
        Sy == SumSeq([i \in 1..n |-> y[i].n])
        Sxx == SumSeq([i \in 1..n |-> x[i].n * x[i].n])
        Sxy == SumSeq([i \in 1..n |-> x[i].n * y[i].n])
        Syy == SumSeq([i \in 1..n |-> y[i].n * y[i].n])
        \* n^2 times ssxm, ssxym, ssym
        A == n * Sxx - Sx * Sx
        B == n * Sxy - Sx * Sy
        C == n * Syy - Sy * Sy
        identical == ~hasNaN /\ \A i, j \in 1..n : x[i] = x[j]
        r2 == IF C = 0 THEN F(0)
              ELSE IF hasNaN THEN NaN
              ELSE IF A = 0 THEN F(0)
              ELSE Rat(B * B, A * C)
        undefined == hasNaN \/ A = 0
    IN  [raised |-> checks_x /\ identical /\ n > 1,
         slope |-> IF undefined THEN NaN ELSE Rat(B, A),
         intercept |-> IF undefined THEN NaN ELSE Rat(Sy * A - B * Sx, n * A),
         r_squared |-> r2,
         p_value |-> IF n = 2 THEN (IF y[1] = y[2] THEN F(1) ELSE F(0))
                     ELSE IF IsNaN(r2) THEN NaN
                     ELSE TwoSidedP(r2),
         std_err |-> IF n = 2 THEN F(0)
                     ELSE IF hasNaN THEN NaN
                     ELSE IF A = 0 THEN (IF C = 0 THEN NaN ELSE Inf)
                     ELSE Sqrt(Rat(A * C - B * B, A * A * (n - 2)))]

\* The percent change without its factor 100.
PercentChangeAsFraction(baseline, final) ==
    IF baseline.n # 0 THEN Rat(final.n - baseline.n, baseline.n) ELSE NoneV

\* ((final - baseline) / baseline) * 100 if baseline != 0 else None
PercentChange(baseline, final) ==
    IF baseline.n # 0 THEN Rat((final.n - baseline.n) * 100, baseline.n) ELSE NoneV

\* A slip in the subtraction: baseline_value - final_value.
AbsoluteChangeReversed(baseline, final) == F(baseline.n - final.n)

\* final_value - baseline_value
AbsoluteChange(baseline, final) == F(final.n - baseline.n)

\* timepoints[-1] - timepoints[0]
TimepointSpan(first, last) ==
    IF IsNaN(first) \/ IsNaN(last) THEN NaN ELSE F(last.n - first.n)

Skipped == [raised |-> FALSE, rows |-> <<>>]

Raised == [raised |-> TRUE, rows |-> <<>>]

\* The points of a sorted group that pass the mask ~np.isnan(values).
MaskValues(d, sorted) == SelectSeq(sorted, LAMBDA i : ~IsNaN(d[i].value))

\* One iteration of the loop of calculate_slopes: the group of `key`.
SlopeGroup(d, key, tie, checks_x) ==
    LET g == GroupIdx(d, key)
        kept == MaskValues(d, SortValues(d, g, tie))
        timepoints == [i \in 1..Len(kept) |-> d[kept[i]].timepoint_num]
        values == [i \in 1..Len(kept) |-> d[kept[i]].value]
        fit == Linregress(timepoints, values, checks_x)
        baseline_value == values[1]
        final_value == values[Len(values)]
    IN  IF Len(g) < 2 THEN Skipped
        ELSE IF Len(timepoints) < 2 THEN Skipped
        ELSE IF ObjectOrdinals(d) \/ fit.raised THEN Raised
        ELSE [raised |-> FALSE,
              rows |-> << [base_subject |-> key[1],
                           measure_type |-> key[2],
                           structure |-> key[3],
                           n_timepoints |-> Len(timepoints),
                           baseline_value |-> baseline_value,
                           final_value |-> final_value,
                           slope |-> fit.slope,
                           intercept |-> fit.intercept,
                           r_squared |-> fit.r_squared,
                           p_value |-> fit.p_value,
                           std_error |-> fit.std_err,
                           absolute_change |-> AbsoluteChange(baseline_value, final_value),
                           percent_change |-> PercentChange(baseline_value, final_value),
                           timepoint_span |->
                               TimepointSpan(timepoints[1], timepoints[Len(timepoints)])] >>]

\* calculate_slopes(df): the slope rows in group order, or an exception.
CalculateSlopesOf(d, tie, checks_x) ==
    LET outs == [k \in 1..Len(GroupKeys) |-> SlopeGroup(d, GroupKeys[k], tie, checks_x)]
    IN  IF \E k \in 1..Len(GroupKeys) : outs[k].raised THEN Raised
        ELSE [raised |-> FALSE, rows |-> Flatten([k \in 1..Len(GroupKeys) |-> outs[k].rows])]

(***************************************************************************)
(* calculate_percent_change                                                *)
(***************************************************************************)
\* The percent change taken relative to the later value instead of the
\* earlier one.
ChangeRowRelativeToLater(key, row1, row2) ==
    LET value1 == row1.value
        value2 == row2.value
    IN  IF ~IsNaN(value1) /\ ~IsNaN(value2) /\ value2.n # 0
        THEN << [base_subject |-> key[1],
                 measure_type |-> key[2],
                 structure |-> key[3],
                 timepoint_from |-> row1.timepoint_id,
                 timepoint_to |-> row2.timepoint_id,
                 tp_num_from |-> row1.timepoint_num,
                 tp_num_to |-> row2.timepoint_num,
                 value_from |-> value1,
                 value_to |-> value2,
                 absolute_change |-> F(value2.n - value1.n),
                 percent_change |-> Rat((value2.n - value1.n) * 100, value2.n)] >>
        ELSE <<>>

\* The test of the later value forgotten: a pair is emitted whenever the
\* earlier value is a non-zero number.
ChangeRowLaterUntested(key, row1, row2) ==
    LET value1 == row1.value
        value2 == row2.value
    IN  IF ~IsNaN(value1) /\ value1.n # 0
        THEN << [base_subject |-> key[1],
                 measure_type |-> key[2],
                 structure |-> key[3],
                 timepoint_from |-> row1.timepoint_id,
                 timepoint_to |-> row2.timepoint_id,
                 tp_num_from |-> row1.timepoint_num,
                 tp_num_to |-> row2.timepoint_num,
                 value_from |-> value1,
                 value_to |-> value2,
                 absolute_change |-> IF IsNaN(value2) THEN NaN ELSE F(value2.n - value1.n),
                 percent_change |-> IF IsNaN(value2) THEN NaN
                                    ELSE Rat((value2.n - value1.n) * 100, value1.n)] >>
        ELSE <<>>

\* A pair with a zero earlier value emitted with a null percent change, as
\* calculate_slopes does for a zero baseline.
ChangeRowNullPercentAtZero(key, row1, row2) ==
    LET value1 == row1.value
        value2 == row2.value
    IN  IF ~IsNaN(value1) /\ ~IsNaN(value2)
        THEN << [base_subject |-> key[1],
                 measure_type |-> key[2],
                 structure |-> key[3],
                 timepoint_from |-> row1.timepoint_id,
                 timepoint_to |-> row2.timepoint_id,
                 tp_num_from |-> row1.timepoint_num,
                 tp_num_to |-> row2.timepoint_num,
                 value_from |-> value1,
                 value_to |-> value2,
                 absolute_change |-> F(value2.n - value1.n),
                 percent_change |-> IF value1.n = 0 THEN NaN
                                    ELSE Rat((value2.n - value1.n) * 100, value1.n)] >>
        ELSE <<>>

\* The body of the inner loop for the adjacent rows row1, row2.
ChangeRow(key, row1, row2) ==
    LET value1 == row1.value
        value2 == row2.value
    IN  IF ~IsNaN(value1) /\ ~IsNaN(value2) /\ value1.n # 0
        THEN << [base_subject |-> key[1],
                 measure_type |-> key[2],
                 structure |-> key[3],
                 timepoint_from |-> row1.timepoint_id,
                 timepoint_to |-> row2.timepoint_id,
                 tp_num_from |-> row1.timepoint_num,
                 tp_num_to |-> row2.timepoint_num,
                 value_from |-> value1,
                 value_to |-> value2,
                 absolute_change |-> F(value2.n - value1.n),
                 percent_change |-> Rat((value2.n - value1.n) * 100, value1.n)] >>
        ELSE <<>>

\* The rows without a value dropped before the pairs are taken, so that the
\* neighbours of a dropped row are paired with each other.
ChangeGroupValuesFiltered(d, key, tie) ==
    LET group == SelectSeq(SortValues(d, GroupIdx(d, key), tie),
                           LAMBDA i : ~IsNaN(d[i].value))
    IN  Flatten([i \in 1..(IF Len(group) = 0 THEN 0 ELSE Len(group) - 1) |->
                    ChangeRow(key, d[group[i]], d[group[i + 1]])])

\* One iteration of the outer loop of calculate_percent_change.
ChangeGroup(d, key, tie) ==
    LET group == SortValues(d, GroupIdx(d, key), tie)
    IN  Flatten([i \in 1..(IF Len(group) = 0 THEN 0 ELSE Len(group) - 1) |->
                    ChangeRow(key, d[group[i]], d[group[i + 1]])])

\* calculate_percent_change(df): the change rows in group order.
CalculatePercentChangeOf(d, tie) ==
    Flatten([k \in 1..Len(GroupKeys) |-> ChangeGroup(d, GroupKeys[k], tie)])

(***************************************************************************)
(* calculate_longitudinal_stats                                            *)
(***************************************************************************)
NoFile == [written |-> FALSE, rows |-> <<>>]

\* table.to_csv(path, index=False)
ToCsv(rows) == [written |-> TRUE, rows |-> rows]

\* No identifier has been parsed.
NotParsed == [base_id |-> <<>>, session_id |-> NoStr, tp_num |-> NoneV]

\* The empty dict {}.
EmptyDict == [x \in {} |-> 0]

\* qc_aggregator.py, prepare_adni_data.py and heuristic.py have not run.
QcIdle == qc_df = <<>> /\ qc_report = <<>>

AdniIdle ==
    /\ create_links = FALSE
    /\ manifest = <<>>
    /\ subject_visits_dict = EmptyDict
    /\ bids_filenames = <<>>
    /\ output_dir = EmptyDict
    /\ stats = EmptyDict

HeurIdle == seqinfo = <<>> /\ info = EmptyDict

Init ==
    /\ df = <<>>
    /\ pc = "load"
    /\ scipy_checks_x \in BOOLEAN
    /\ slope_rows = <<>>
    /\ change_rows = <<>>
    /\ output_slopes = NoFile
    /\ output_percent = NoFile
    /\ subject_id = <<>>
    /\ parsed = NotParsed
    /\ QcIdle /\ AdniIdle /\ HeurIdle

\* load_longitudinal_stats: one rows.append(...) of its loops.
AppendRow ==
    /\ pc = "load"
    /\ Len(df) < MaxRows
    /\ \E row \in RowDomain : df' = Append(df, row)
    /\ UNCHANGED <<pc, scipy_checks_x, slope_rows, change_rows, output_slopes, output_percent, subject_id, parsed, qc_vars, adni_vars, heur_vars>>

\* load_longitudinal_stats: df = pd.DataFrame(rows), the summary print, and
\* the return.  A table built from no row has no column, and
\* df['base_subject'] raises KeyError.
LoadReturn ==
    /\ pc = "load"
    /\ pc' = IF df = <<>> THEN "load_raised" ELSE "loaded"
    /\ UNCHANGED <<df, scipy_checks_x, slope_rows, change_rows, output_slopes, output_percent, subject_id, parsed, qc_vars, adni_vars, heur_vars>>

\* calculate_longitudinal_stats, from the return of the load to the saved
\* slopes: with an empty table, warn and return; else
\* slopes_df = calculate_slopes(df), saved when not empty.  An exception of
\* calculate_slopes ends the program.
CalculateSlopes ==
    /\ pc = "loaded"
    /\ IF df = <<>>
       THEN /\ pc' = "no_data"
            /\ UNCHANGED <<slope_rows, output_slopes>>
       ELSE \E tie \in TieOrders(df) :
              LET res == CalculateSlopesOf(df, tie, scipy_checks_x)
              IN  IF res.raised
                  THEN /\ pc' = "slopes_raised"
                       /\ UNCHANGED <<slope_rows, output_slopes>>
                  ELSE /\ pc' = "percent"
                       /\ slope_rows' = res.rows
                       /\ output_slopes' =
                            IF res.rows # <<>> THEN ToCsv(res.rows) ELSE output_slopes
    /\ UNCHANGED <<df, scipy_checks_x, change_rows, output_percent, subject_id, parsed, qc_vars, adni_vars, heur_vars>>

\* calculate_longitudinal_stats: percent_df = calculate_percent_change(df),
\* saved when not empty.
CalculatePercentChange ==
    /\ pc = "percent"
    /\ \E tie \in TieOrders(df) :
         LET rows == CalculatePercentChangeOf(df, tie)
         IN  /\ change_rows' = rows
             /\ output_percent' = IF rows # <<>> THEN ToCsv(rows) ELSE output_percent
    /\ pc' = "done"
    /\ UNCHANGED <<df, scipy_checks_x, slope_rows, output_slopes, subject_id, parsed, qc_vars, adni_vars, heur_vars>>

Next ==
    \/ AppendRow
    \/ LoadReturn
    \/ CalculateSlopes
    \/ CalculatePercentChange

Spec == Init /\ [][Next]_vars

(***************************************************************************)
(* parse_timepoint_info on its own: every identifier of IdDomain is given  *)
(* to the function once.                                                   *)
(***************************************************************************)
\* The pieces identifiers are made of: text, digits, an underscore, a
\* sign, a blank, the two markers, and "ses-" without its underscore.
IdTokens ==
    {<<"s">>, <<"0">>, <<"3">>, <<"_">>, <<"+">>, <<" ">>,
     TpMarker, SesMarker, <<"s", "e", "s", "-">>}

IdDomain ==
    {Flatten(ts) : ts \in UNION {[1..k -> IdTokens] : k \in 0..MaxIdTokens}}

\* longitudinal_stats.py has not run.
LongIdle ==
    /\ df = <<>>
    /\ scipy_checks_x = FALSE
    /\ slope_rows = <<>>
    /\ change_rows = <<>>
    /\ output_slopes = NoFile
    /\ output_percent = NoFile
    /\ subject_id = <<>>
    /\ parsed = NotParsed

ParseInit ==
    /\ subject_id \in IdDomain
    /\ parsed = NotParsed
    /\ pc = "parse"
    /\ df = <<>>
    /\ scipy_checks_x = FALSE
    /\ slope_rows = <<>>
    /\ change_rows = <<>>
    /\ output_slopes = NoFile
    /\ output_percent = NoFile
    /\ QcIdle /\ AdniIdle /\ HeurIdle

\* The call parse_timepoint_info(subject_id) and its return.
ParseTimepoint ==
    /\ pc = "parse"
    /\ parsed' = ParseTimepointInfo(subject_id)
    /\ pc' = "parsed"
    /\ UNCHANGED <<df, scipy_checks_x, slope_rows, change_rows, output_slopes,
                   output_percent, subject_id, qc_vars, adni_vars, heur_vars>>

ParseNext == ParseTimepoint

ParseSpec == ParseInit /\ [][ParseNext]_vars

(***************************************************************************)
(* Properties                                                              *)
(***************************************************************************)
KeySet == Range(GroupKeys)

\* A valid point: a value and an ordinal.
Valid(row) == ~IsNaN(row.value) /\ ~IsNaN(row.timepoint_num)

ValidIdx(d, key) == {i \in 1..Len(d) : KeyOf(d[i]) = key /\ Valid(d[i])}

\* The positions of the rows of a key that have a value.
ValuedIdx(d, key) == {i \in 1..Len(d) : KeyOf(d[i]) = key /\ ~IsNaN(d[i].value)}

RowsOf(rows, key) == SelectSeq(rows, LAMBDA r : KeyOf(r) = key)

Ord(d, i) == d[i].timepoint_num.n

\* calculate_slopes has returned its table.
SlopesDone == pc \in {"percent", "done"}

\* calculate_slopes has returned or raised.
SlopesCalled == pc \in {"percent", "done", "slopes_raised"}

\* The table with its rows in the order p.
Permuted(d, p) == [i \in 1..Len(d) |-> d[p[i]]]

\* No two rows of a group have the same ordinal (two missing ordinals count
\* as the same).
NoSharedOrdinal(d) ==
    \A i, j \in 1..Len(d) :
        i # j /\ KeyOf(d[i]) = KeyOf(d[j]) => d[i].timepoint_num # d[j].timepoint_num

\* C1: in every TrendResult, n_timepoints is the number of records of its
\* group that have both a value and an ordinal.
C1_NTimepointsCountsValidPoints ==
    SlopesDone =>
        \A i \in 1..Len(slope_rows) :
            slope_rows[i].n_timepoints = Cardinality(ValidIdx(df, KeyOf(slope_rows[i])))

\* C2: a group with exactly one valid point, whatever invalid records it
\* also holds, has no TrendResult and no DeltaResult.
C2_OneValidPointNoRows ==
    \A key \in KeySet :
        Cardinality(ValidIdx(df, key)) = 1 =>
            /\ SlopesDone => RowsOf(slope_rows, key) = <<>>
            /\ pc = "done" => RowsOf(change_rows, key) = <<>>

\* Every order of the rows of d and every order the sort may leave ties in
\* gives the outcome the run had: the same set of TrendResults (or the
\* same exception), compared when calculate_slopes has just ended, and the
\* same set of DeltaResults, compared when calculate_percent_change has.
SameOutputsInAnyOrder(d) ==
    \A p \in Permutations(1..Len(d)), tie \in TieOrders(d) :
        /\ pc = "percent" =>
             LET res == CalculateSlopesOf(Permuted(d, p), tie, scipy_checks_x)
             IN  ~res.raised /\ Range(res.rows) = Range(slope_rows)
        /\ pc = "slopes_raised" =>
             CalculateSlopesOf(Permuted(d, p), tie, scipy_checks_x).raised
        /\ pc = "done" =>
             Range(CalculatePercentChangeOf(Permuted(d, p), tie)) = Range(change_rows)

\* C3 as stated: the outputs are the same sets for every order of the same
\* records, also when records of a group share an ordinal.
C3_OrderIndependent == SlopesCalled => SameOutputsInAnyOrder(df)

\* C3 (amended): the outputs are the same sets for every order of the same
\* records, provided no two records of a group share an ordinal (missing
\* ordinals counting as shared).
C3_OrderIndependentWithoutTies ==
    SlopesCalled /\ NoSharedOrdinal(df) => SameOutputsInAnyOrder(df)

\* A run on three records of one group, arriving out of ordinal order and
\* with one missing ordinal, that produced rows of both kinds.
C3_Witness ==
    /\ pc = "done"
    /\ Len(df) = 3
    /\ NoSharedOrdinal(df)
    /\ Cardinality(ValidIdx(df, GroupKeys[1])) = 2
    /\ ~IsNaN(df[2].timepoint_num) /\ ~IsNaN(df[3].timepoint_num)
    /\ Ord(df, 2) > Ord(df, 3)
    /\ IsNaN(df[1].timepoint_num) /\ ~IsNaN(df[1].value)
    /\ Len(slope_rows) = 1
    /\ Len(change_rows) = 2

\* The TrendResult of `key` is that of the line through (t1, v1), (t2, v2),
\* with r_squared = r2.
TwoPointRow(key, t1, v1, t2, v2, r2) ==
    /\ Len(RowsOf(slope_rows, key)) = 1
    /\ LET row == RowsOf(slope_rows, key)[1]
       IN  /\ row.slope = Rat(v2 - v1, t2 - t1)
           /\ row.absolute_change = F(v2 - v1)
           /\ row.r_squared = r2

FirstValid(d, key) ==
    {i \in ValidIdx(d, key) : \A j \in ValidIdx(d, key) : Ord(d, i) <= Ord(d, j)}

\* The valid points of `key` at its largest valid ordinal.
LastValid(d, key) ==
    {i \in ValidIdx(d, key) : \A j \in ValidIdx(d, key) : Ord(d, i) >= Ord(d, j)}

\* C5: a group with at least two valid points whose baseline value is 0
\* gets, without an exception, a TrendResult with percent_change null and
\* absolute_change = final_value - baseline_value.
C5_ZeroBaselineNullPercent ==
    \A key \in KeySet :
        /\ SlopesCalled
        /\ Cardinality(ValidIdx(df, key)) >= 2
        /\ \A i \in FirstValid(df, key) : df[i].value = F(0)
        => /\ pc # "slopes_raised"
           /\ \E j \in 1..Len(slope_rows) :
                /\ KeyOf(slope_rows[j]) = key
                /\ slope_rows[j].baseline_value = F(0)
                /\ slope_rows[j].percent_change = NoneV
                /\ slope_rows[j].absolute_change = slope_rows[j].final_value

\* All records of `key` are valid with a non-zero value, at pairwise
\* distinct ordinals.
ValidDistinctSeries(d, key) ==
    LET S == Range(GroupIdx(d, key))
    IN  /\ S # {}
        /\ \A i \in S : Valid(d[i]) /\ d[i].value.n # 0
        /\ \A i, j \in S : i # j => Ord(d, i) # Ord(d, j)

\* The DeltaResults of every such series are one per pair of ordinally
\* consecutive points, with the change from the earlier to the later.
AdjacentDeltas(d, rows) ==
    \A key \in KeySet :
        ValidDistinctSeries(d, key) =>
            LET S == Range(GroupIdx(d, key))
                R == RowsOf(rows, key)
            IN  /\ Len(R) = Cardinality(S) - 1
                /\ \A a, b \in S :
                     /\ Ord(d, a) < Ord(d, b)
                     /\ ~\E c \in S : Ord(d, a) < Ord(d, c) /\ Ord(d, c) < Ord(d, b)
                     => \E j \in 1..Len(R) :
                          /\ R[j].timepoint_from = d[a].timepoint_id
                          /\ R[j].timepoint_to = d[b].timepoint_id
                          /\ R[j].value_from = d[a].value
                          /\ R[j].value_to = d[b].value
                          /\ R[j].absolute_change = F(d[b].value.n - d[a].value.n)
                          /\ R[j].percent_change =
                               Rat((d[b].value.n - d[a].value.n) * 100, d[a].value.n)

\* C6: a series of k valid points at distinct ordinals with non-zero
\* values, in any input order, yields exactly the k-1 DeltaResults of its
\* ordinally consecutive pairs (also for tables on which calculate_slopes
\* raised before calculate_percent_change was reached).
C6_AdjacencyCompleteness ==
    /\ pc = "done" => AdjacentDeltas(df, change_rows)
    /\ pc = "slopes_raised" =>
         \A tie \in TieOrders(df) : AdjacentDeltas(df, CalculatePercentChangeOf(df, tie))

\* Ordinals [1,2,3] with values [10,20,15], arriving in the order 3, 1, 2,
\* gave (1->2: +10, +100%) and (2->3: -5, -25%).
C6_Witness ==
    /\ pc = "done"
    /\ Len(df) = 3
    /\ \A i \in 1..3 : KeyOf(df[i]) = GroupKeys[1]
    /\ df[1].timepoint_num = F(3) /\ df[1].value = F(15)
    /\ df[2].timepoint_num = F(1) /\ df[2].value = F(10)
    /\ df[3].timepoint_num = F(2) /\ df[3].value = F(20)
    /\ Len(change_rows) = 2
    /\ change_rows[1].absolute_change = F(10) /\ change_rows[1].percent_change = F(100)
    /\ change_rows[2].absolute_change = F(-5) /\ change_rows[2].percent_change = F(-25)

\* At least two records of `key` have a value, and they all have the same
\* ordinal.
DegenerateGroup(d, key) ==
    /\ Cardinality(ValuedIdx(d, key)) >= 2
    /\ \A i, j \in ValuedIdx(d, key) : Valid(d[i]) /\ Ord(d, i) = Ord(d, j)

\* C7: a group with at least two valid points that all share one ordinal
\* does not make calculate_slopes raise, and gets a TrendResult whose
\* slope, std_error and p_value are NaN.
C7_DegenerateFitReportsNaN ==
    \A key \in KeySet :
        SlopesCalled /\ DegenerateGroup(df, key) =>
            /\ pc # "slopes_raised"
            /\ \E j \in 1..Len(slope_rows) :
                 /\ KeyOf(slope_rows[j]) = key
                 /\ IsNaN(slope_rows[j].slope)
                 /\ IsNaN(slope_rows[j].std_error)
                 /\ IsNaN(slope_rows[j].p_value)

\* C8: calculate_slopes and calculate_percent_change never raise, whatever
\* the records.
C8_CoreNeverRaises == pc # "slopes_raised"

\* C9: no DeltaResult has an endpoint that is a record without an ordinal.
C9_NoDeltaAtNullOrdinal ==
    pc = "done" =>
        \A j \in 1..Len(change_rows) :
            ~IsNaN(change_rows[j].tp_num_from) /\ ~IsNaN(change_rows[j].tp_num_to)

\* C10: in every TrendResult, baseline_value is the value of a valid point
\* at the smallest valid ordinal of the group and final_value that of a
\* valid point at the largest.
C10_BaselineFinalAtExtremes ==
    SlopesDone =>
        \A j \in 1..Len(slope_rows) :
            LET key == KeyOf(slope_rows[j])
            IN  /\ \E i \in FirstValid(df, key) : df[i].value = slope_rows[j].baseline_value
                /\ \E i \in LastValid(df, key) : df[i].value = slope_rows[j].final_value

\* Both values of the adjacent pair (a, b) are numbers and the earlier one
\* is not zero.
ValidPair(d, a, b) ==
    ~IsNaN(d[a].value) /\ ~IsNaN(d[b].value) /\ d[a].value.n # 0

\* The DeltaResult row is the one of the pair (a, b) of d.
DeltaOfPair(row, d, a, b) ==
    /\ row.timepoint_from = d[a].timepoint_id
    /\ row.timepoint_to = d[b].timepoint_id
    /\ row.tp_num_from = d[a].timepoint_num
    /\ row.tp_num_to = d[b].timepoint_num
    /\ row.value_from = d[a].value
    /\ row.value_to = d[b].value

\* For one of the orders the sort may give, the DeltaResults of every group
\* are those of the valid adjacent pairs of the sorted group, one each.
DeltasOfValidPairs(d, rows) ==
    \E tie \in TieOrders(d) :
        \A key \in KeySet :
            LET s == SortValues(d, GroupIdx(d, key), tie)
                P == {i \in 1..(Len(s) - 1) : ValidPair(d, s[i], s[i + 1])}
                R == RowsOf(rows, key)
            IN  /\ Len(R) = Cardinality(P)
                /\ \A i \in P : \E j \in 1..Len(R) : DeltaOfPair(R[j], d, s[i], s[i + 1])
                /\ \A j \in 1..Len(R) : \E i \in P : DeltaOfPair(R[j], d, s[i], s[i + 1])

\* C15: a DeltaResult is emitted for an adjacent pair of the sorted series
\* if and only if both values are non-null and the 'from' value is not
\* zero; a group has as many DeltaResults as such pairs.
C15_DeltaIffValidPair == pc = "done" => DeltasOfValidPairs(df, change_rows)

\* The values 0, 10, 15 at the ordinals 1, 2, 3: the pair (0, 10) has a
\* zero 'from' value and gave nothing, the pair (10, 15) gave the one
\* DeltaResult.
C15_Witness ==
    /\ pc = "done"
    /\ Len(df) = 3
    /\ \A i \in 1..3 : KeyOf(df[i]) = GroupKeys[1]
    /\ df[1].timepoint_num = F(1) /\ df[1].value = F(0)
    /\ df[2].timepoint_num = F(2) /\ df[2].value = F(10)
    /\ df[3].timepoint_num = F(3) /\ df[3].value = F(15)
    /\ Len(change_rows) = 1
    /\ change_rows[1].value_from = F(10)
    /\ change_rows[1].value_to = F(15)

\* The group of key is two records with values at two different ordinals,
\* the earlier value being zero.
ZeroFromPair(d, key) ==
    LET g == GroupIdx(d, key)
    IN  /\ Len(g) = 2
        /\ Valid(d[g[1]]) /\ Valid(d[g[2]])
        /\ Ord(d, g[1]) # Ord(d, g[2])
        /\ (IF Ord(d, g[1]) < Ord(d, g[2]) THEN d[g[1]] ELSE d[g[2]]).value.n = 0

\* C16 as stated: an adjacent pair with non-null values whose 'from' value
\* is zero gets a DeltaResult with a null percent_change.
C16_ZeroFromNullPercent ==
    pc = "done" =>
        \A key \in KeySet :
            ZeroFromPair(df, key) =>
                \E j \in 1..Len(change_rows) :
                    /\ KeyOf(change_rows[j]) = key
                    /\ change_rows[j].value_from.n = 0
                    /\ IsNaN(change_rows[j].percent_change)

\* C16 (amended): an adjacent pair whose 'from' value is zero gets no
\* DeltaResult; no DeltaResult has a zero 'from' value, and every
\* percent_change is a finite number (neither null nor infinite).
C16_ZeroFromNoDelta ==
    pc = "done" =>
        /\ \A j \in 1..Len(change_rows) :
             /\ change_rows[j].value_from.k = "rat"
             /\ change_rows[j].value_from.n # 0
             /\ change_rows[j].percent_change.k = "rat"
        /\ \A key \in KeySet : ZeroFromPair(df, key) => RowsOf(change_rows, key) = <<>>

\* The values 0 and 10 at the ordinals 1 and 2 gave no DeltaResult.
C16_Witness ==
    /\ pc = "done"
    /\ Len(df) = 2
    /\ \A i \in 1..2 : KeyOf(df[i]) = GroupKeys[1]
    /\ df[1].timepoint_num = F(1) /\ df[1].value = F(0)
    /\ df[2].timepoint_num = F(2) /\ df[2].value = F(10)
    /\ change_rows = <<>>

\* The order a stable sort gives: equal ordinals in arrival order.
ArrivalOrder(d) == [i \in 1..Len(d) |-> i]

\* C17: the per-group sort is stable, so both result tables are those of
\* the sort that keeps records with equal ordinals in arrival order.
C17_StableSort ==
    /\ SlopesDone => slope_rows = CalculateSlopesOf(df, ArrivalOrder(df), scipy_checks_x).rows
    /\ pc = "done" => change_rows = CalculatePercentChangeOf(df, ArrivalOrder(df))

\* Every record of the group of key is a valid point with a non-zero
\* value, and there are at least two.
AllValidNonZero(d, key) ==
    LET g == GroupIdx(d, key)
    IN  /\ Len(g) >= 2
        /\ \A i \in Range(g) : Valid(d[i]) /\ d[i].value.n # 0

\* C18: records that share key and ordinal are neither merged nor dropped:
\* a group of m valid non-zero records, ordinals repeating or not, gets a
\* TrendResult fitted on all m (n_timepoints = m) and m-1 DeltaResults.
C18_MultiplicityPreserved ==
    \A key \in KeySet :
        AllValidNonZero(df, key) =>
            /\ pc = "slopes_raised" =>
                 \A tie \in TieOrders(df) : ~SlopeGroup(df, key, tie, scipy_checks_x).raised
            /\ SlopesDone =>
                 /\ Len(RowsOf(slope_rows, key)) = 1
                 /\ RowsOf(slope_rows, key)[1].n_timepoints = Len(GroupIdx(df, key))
            /\ pc = "done" =>
                 Len(RowsOf(change_rows, key)) = Len(GroupIdx(df, key)) - 1

\* The largest and the smallest ordinal of the valid points of key.
MaxOrd(d, key) ==
    CHOOSE t \in {Ord(d, i) : i \in ValidIdx(d, key)} :
        \A i \in ValidIdx(d, key) : Ord(d, i) <= t

MinOrd(d, key) ==
    CHOOSE t \in {Ord(d, i) : i \in ValidIdx(d, key)} :
        \A i \in ValidIdx(d, key) : t <= Ord(d, i)

\* C19: in every TrendResult, timepoint_span is the largest minus the
\* smallest ordinal of the valid points of the group: an integer >= 0, and
\* 0 exactly when all these ordinals are equal.
C19_SpanIsMaxMinusMin ==
    SlopesDone =>
        \A j \in 1..Len(slope_rows) :
            LET key == KeyOf(slope_rows[j])
                span == slope_rows[j].timepoint_span
            IN  /\ ValidIdx(df, key) # {}
                /\ span = F(MaxOrd(df, key) - MinOrd(df, key))
                /\ span.n >= 0
                /\ span.n = 0 <=> \A a, b \in ValidIdx(df, key) : Ord(df, a) = Ord(df, b)

\* C20: every TrendResult has n_timepoints >= 2, and a group with fewer
\* than two valid points has no TrendResult.
C20_TrendNeedsTwoPoints ==
    SlopesDone =>
        /\ \A j \in 1..Len(slope_rows) : slope_rows[j].n_timepoints >= 2
        /\ \A key \in KeySet :
             Cardinality(ValidIdx(df, key)) < 2 => RowsOf(slope_rows, key) = <<>>

\* The records of key alone, in arrival order.
SubTable(d, key) == SelectSeq(d, LAMBDA row : KeyOf(row) = key)

\* C21: the TrendResult and the DeltaResults of a key are those the
\* records of that key alone give; records of other keys change nothing.
C21_GroupIndependence ==
    \A key \in KeySet :
        LET sub == SubTable(df, key)
        IN  /\ SlopesDone =>
                 \E tie \in TieOrders(sub) :
                     LET alone == SlopeGroup(sub, key, tie, scipy_checks_x)
                     IN  ~alone.raised /\ alone.rows = RowsOf(slope_rows, key)
            /\ pc = "slopes_raised" =>
                 \E tie \in TieOrders(sub) :
                     LET alone == SlopeGroup(sub, key, tie, scipy_checks_x)
                     IN  alone.raised \/ alone.rows = <<>>
            /\ pc = "done" =>
                 \E tie \in TieOrders(sub) :
                     ChangeGroup(sub, key, tie) = RowsOf(change_rows, key)

\* a * b = c * 100 for a percent change a that is a number.
PercentConsistent(percent, base, change) ==
    /\ percent.k = "rat"
    /\ percent.n * base.n * change.d = change.n * 100 * percent.d * base.d

\* C22: in every TrendResult absolute_change = final_value - baseline_value
\* and a non-null percent_change times baseline_value is absolute_change
\* times 100; in every DeltaResult absolute_change = value_to - value_from
\* and percent_change times value_from is absolute_change times 100.
C22_ChangeFieldsConsistent ==
    /\ SlopesDone =>
         \A j \in 1..Len(slope_rows) :
             LET r == slope_rows[j]
             IN  /\ r.absolute_change = F(r.final_value.n - r.baseline_value.n)
                 /\ r.percent_change # NoneV =>
                      PercentConsistent(r.percent_change, r.baseline_value, r.absolute_change)
    /\ pc = "done" =>
         \A j \in 1..Len(change_rows) :
             LET r == change_rows[j]
             IN  /\ r.absolute_change = F(r.value_to.n - r.value_from.n)
                 /\ PercentConsistent(r.percent_change, r.value_from, r.absolute_change)

\* The values 10, 20 at the ordinals 1, 2 gave +10 and +100% in both tables.
C22_Witness ==
    /\ pc = "done"
    /\ Len(slope_rows) = 1 /\ Len(change_rows) = 1
    /\ slope_rows[1].baseline_value = F(10) /\ slope_rows[1].final_value = F(20)
    /\ slope_rows[1].absolute_change = F(10) /\ slope_rows[1].percent_change = F(100)
    /\ change_rows[1].value_from = F(10) /\ change_rows[1].value_to = F(20)
    /\ change_rows[1].absolute_change = F(10) /\ change_rows[1].percent_change = F(100)

\* The rows of df that are the record (timepoint_id, value) of key.
RecordsLike(d, key, timepoint_id, value) ==
    {i \in 1..Len(d) : /\ KeyOf(d[i]) = key
                       /\ d[i].timepoint_id = timepoint_id
                       /\ d[i].value = value}

\* C23: no DeltaResult has a null value at either end, and none joins two
\* records that have a record of the group strictly between them in
\* ordinal, whether that record has a value or not; so a null value
\* between two valid records suppresses both deltas that touch it.
C23_AdjacencyBeforeFiltering ==
    pc = "done" =>
        \A j \in 1..Len(change_rows) :
            LET r == change_rows[j]
                key == KeyOf(r)
            IN  /\ ~IsNaN(r.value_from) /\ ~IsNaN(r.value_to)
                /\ RecordsLike(df, key, r.timepoint_from, r.value_from) # {}
                /\ RecordsLike(df, key, r.timepoint_to, r.value_to) # {}
                /\ ~IsNaN(r.tp_num_from) /\ ~IsNaN(r.tp_num_to) =>
                     /\ r.tp_num_from.n <= r.tp_num_to.n
                     /\ ~\E i \in Range(GroupIdx(df, key)) :
                          /\ ~IsNaN(df[i].timepoint_num)
                          /\ r.tp_num_from.n < Ord(df, i)
                          /\ Ord(df, i) < r.tp_num_to.n

\* The values 10, missing, 15 at the ordinals 1, 2, 3 gave no DeltaResult.
C23_Witness ==
    /\ pc = "done"
    /\ Len(df) = 3
    /\ \A i \in 1..3 : KeyOf(df[i]) = GroupKeys[1]
    /\ df[1].timepoint_num = F(1) /\ df[1].value = F(10)
    /\ df[2].timepoint_num = F(2) /\ IsNaN(df[2].value)
    /\ df[3].timepoint_num = F(3) /\ df[3].value = F(15)
    /\ change_rows = <<>>

\* C24: when no record was loaded, calculate_longitudinal_stats reaches
\* its "No longitudinal data found" branch and returns, without raising
\* and without computing or writing anything.
C24_EmptyInputNoData ==
    df = <<>> /\ pc # "load" =>
        /\ pc \in {"loaded", "no_data"}
        /\ slope_rows = <<>> /\ change_rows = <<>>
        /\ ~output_slopes.written /\ ~output_percent.written

\* C25: each table is written exactly when it has a row, whatever the
\* other table holds; the trend file is written before the delta
\* computation starts, and the delta table is computed and written also
\* when there is no trend table.
C25_OutputsIndependent ==
    /\ SlopesDone =>
         /\ output_slopes.written <=> slope_rows # <<>>
         /\ output_slopes.written => output_slopes.rows = slope_rows
    /\ pc = "done" =>
         /\ output_percent.written <=> change_rows # <<>>
         /\ output_percent.written => output_percent.rows = change_rows
    /\ pc = "slopes_raised" =>
         ((\A tie \in TieOrders(df) : CalculatePercentChangeOf(df, tie) # <<>>)
              => output_percent.written)

(***************************************************************************)
(* Properties of parse_timepoint_info (under ParseSpec)                    *)
(***************************************************************************)
\* The part of s before the first occurrence of marker.
Before(s, marker) == SubSeq(s, 1, Find(s, marker) - 1)

\* The whole of s after the first occurrence of marker.
After(s, marker) == SubSeq(s, Find(s, marker) + Len(marker), Len(s))

\* The integer spelled by the digit characters of s, None without a digit.
DigitsOrdinal(s) ==
    IF SelectSeq(s, IsDigit) = <<>> THEN NoneV
    ELSE F(DigitsValue(SelectSeq(s, IsDigit)))

\* s starts with prefix.
StartsWith(s, prefix) ==
    Len(s) >= Len(prefix) /\ SubSeq(s, 1, Len(prefix)) = prefix

\* C11: an id with the session marker is split once at the first marker:
\* base_subject is the part before it, the label is "ses-" and the whole
\* remainder, the ordinal the integer of all digits of the whole
\* remainder (null without a digit), also when the marker occurs again.
C11_SessionRuleWholeRemainder ==
    pc = "parsed" /\ Contains(subject_id, SesMarker) =>
        /\ parsed.base_id = Before(subject_id, SesMarker)
        /\ parsed.session_id = Some(<<"s", "e", "s", "-">> \o After(subject_id, SesMarker))
        /\ parsed.tp_num = DigitsOrdinal(After(subject_id, SesMarker))

\* C12: an id with "_tp" and no session marker has as base_subject the
\* part before the first "_tp" and as label "tp" and the remainder
\* verbatim; the ordinal is the remainder as an integer, null when it is
\* not one.
C12_TimepointRuleVerbatimLabel ==
    pc = "parsed" /\ Contains(subject_id, TpMarker) /\ ~Contains(subject_id, SesMarker) =>
        /\ parsed.base_id = Before(subject_id, TpMarker)
        /\ parsed.session_id = Some(<<"t", "p">> \o After(subject_id, TpMarker))
        /\ parsed.tp_num = (IF IntOf(After(subject_id, TpMarker)).ok
                            THEN F(IntOf(After(subject_id, TpMarker)).val)
                            ELSE NoneV)

\* The result is one of the session rule: a label "ses-...", and never the
\* "tp..." label of the timepoint rule.
ResolvedBySessionRule ==
    /\ parsed.session_id.some
    /\ StartsWith(parsed.session_id.s, <<"s", "e", "s", "-">>)

\* C13 as stated: an id that contains "ses-" and "_tp" is resolved by the
\* session rule, wherever the two occur.
C13_SessionRuleFirst ==
    /\ pc = "parsed"
    /\ Contains(subject_id, <<"s", "e", "s", "-">>)
    /\ Contains(subject_id, TpMarker)
    => ResolvedBySessionRule

\* C13 (amended): an id that contains "_ses-", underscore included, and
\* "_tp" is resolved by the session rule, wherever the two occur: the base
\* is the part before the first "_ses-" and the label starts with "ses-".
C13_UnderscoreSessionRuleFirst ==
    /\ pc = "parsed"
    /\ Contains(subject_id, SesMarker)
    /\ Contains(subject_id, TpMarker)
    => /\ ResolvedBySessionRule
       /\ parsed.base_id = Before(subject_id, SesMarker)

\* An id with "_tp" before "_ses-" has been parsed.
C13_Witness ==
    /\ pc = "parsed"
    /\ Contains(subject_id, SesMarker)
    /\ Contains(subject_id, TpMarker)
    /\ Find(subject_id, TpMarker) < Find(subject_id, SesMarker)
    /\ parsed.base_id = Before(subject_id, SesMarker)

\* C14: an id with neither marker resolves to itself as base_subject, with
\* no label and no ordinal.
C14_NoMarkerNoTimepoint ==
    /\ pc = "parsed"
    /\ ~Contains(subject_id, SesMarker)
    /\ ~Contains(subject_id, TpMarker)
    => /\ parsed.base_id = subject_id
       /\ ~parsed.session_id.some
       /\ parsed.tp_num = NoneV

\* An id with digits and an underscore but no marker has been parsed.
C14_Witness ==
    /\ pc = "parsed"
    /\ subject_id = <<"s", "_", "0", "3">>
    /\ parsed.base_id = subject_id
    /\ ~parsed.session_id.some

(***************************************************************************)
(* qc_aggregator.py: aggregate_qc_metrics and flag_outliers                *)
(*                                                                         *)
(* qc_df is the table of the key metrics, one row per MRIQC file, and      *)
(* after flag_outliers also of the outlier columns; qc_report is the       *)
(* outlier report.  Of the columns of extract_key_metrics only the seven   *)
(* that flag_outliers reads are kept, and the z-score columns, which       *)
(* nothing reads, are left out.                                            *)
(***************************************************************************)
QC_THRESHOLDS ==
    [cnr |-> F(2), snr_total |-> F(10), fber |-> F(1000), efc |-> Rat(7, 10),
     qi_2 |-> F(0), cjv |-> Rat(1, 2), wm2max |-> Rat(1, 2)]

\* a < b on a column: a missing value (None, NaN) compares False.
Lt(a, b) == a.k = "rat" /\ b.k = "rat" /\ a.n * b.d < b.n * a.d

Gt(a, b) == Lt(b, a)

\* The values the MRIQC files of the model give for each metric: one
\* beyond the threshold, and one at the threshold or missing.
MetricValues ==
    [cnr |-> {F(1), F(2)}, snr_total |-> {F(5), NoneV}, fber |-> {F(500), F(1000)},
     efc |-> {Rat(9, 10), Rat(7, 10)}, qi_2 |-> {Rat(1, 100), F(0)},
     cjv |-> {F(1), NoneV}, wm2max |-> {F(1), Rat(1, 2)}]

\* The rows extract_key_metrics can return.
MetricsDomain ==
    [cnr : MetricValues.cnr, snr_total : MetricValues.snr_total, fber : MetricValues.fber,
     efc : MetricValues.efc, qi_2 : MetricValues.qi_2, cjv : MetricValues.cjv,
     wm2max : MetricValues.wm2max]

\* The columns of the table whose name starts with 'outlier_' when
\* outlier_cols is computed, in column order.
outlier_cols ==
    <<"outlier_cnr", "outlier_snr", "outlier_fber", "outlier_efc",
      "outlier_qi2", "outlier_cjv", "outlier_wm2max">>

\* The seven flag columns of one row.
OutlierFlags(row) ==
    [outlier_cnr |-> Lt(row.cnr, QC_THRESHOLDS.cnr),
     outlier_snr |-> Lt(row.snr_total, QC_THRESHOLDS.snr_total),
     outlier_fber |-> Lt(row.fber, QC_THRESHOLDS.fber),
     outlier_efc |-> Gt(row.efc, QC_THRESHOLDS.efc),
     outlier_qi2 |-> Gt(row.qi_2, QC_THRESHOLDS.qi_2),
     outlier_cjv |-> Gt(row.cjv, QC_THRESHOLDS.cjv),
     outlier_wm2max |-> Gt(row.wm2max, QC_THRESHOLDS.wm2max)]

\* df[cols].sum(axis=1) of one row: the number of True among cols.
SumFlags(flags, cols) == Cardinality({i \in 1..Len(cols) : flags[cols[i]]})

\* outlier_cols[:-1], the columns outlier_count sums.
CountedCols(cols) == SubSeq(cols, 1, Len(cols) - 1)

\* flag_outliers(df)
FlagOutliers(d) ==
    [i \in 1..Len(d) |->
        LET flags == OutlierFlags(d[i])
        IN  [metrics |-> d[i],
             flags |-> flags,
             outlier_any |-> \E c \in 1..Len(outlier_cols) : flags[outlier_cols[c]],
             outlier_count |-> SumFlags(flags, CountedCols(outlier_cols))]]

\* The outlier report: for every row with outlier_any, in order, its row
\* number, the "Outlier flags" count and the "Flagged metrics" list.
OutlierReport(d) ==
    LET outliers == SelectSeq([i \in 1..Len(d) |-> i], LAMBDA i : d[i].outlier_any)
    IN  [j \in 1..Len(outliers) |->
            [row |-> outliers[j],
             outlier_flags |-> d[outliers[j]].outlier_count,
             flagged_metrics |->
                 SelectSeq(outlier_cols, LAMBDA c : d[outliers[j]].flags[c])]]

QcInit ==
    /\ pc = "qc_read"
    /\ qc_df = <<>>
    /\ qc_report = <<>>
    /\ LongIdle /\ AdniIdle /\ HeurIdle

\* aggregate_qc_metrics: one MRIQC file loaded and rows.append(metrics).
AppendMetrics ==
    /\ pc = "qc_read"
    /\ Len(qc_df) < MaxQcRows
    /\ \E metrics \in MetricsDomain : qc_df' = Append(qc_df, metrics)
    /\ UNCHANGED <<pc, qc_report, df, scipy_checks_x, slope_rows, change_rows,
                   output_slopes, output_percent, subject_id, parsed, adni_vars, heur_vars>>

\* aggregate_qc_metrics after the files are read: without a row it returns;
\* else the table is flagged and the report written.
AggregateQcMetrics ==
    /\ pc = "qc_read"
    /\ IF qc_df = <<>>
       THEN /\ pc' = "qc_no_data"
            /\ UNCHANGED <<qc_df, qc_report>>
       ELSE /\ pc' = "qc_done"
            /\ qc_df' = FlagOutliers(qc_df)
            /\ qc_report' = OutlierReport(FlagOutliers(qc_df))
    /\ UNCHANGED <<df, scipy_checks_x, slope_rows, change_rows,
                   output_slopes, output_percent, subject_id, parsed, adni_vars, heur_vars>>

QcNext == AppendMetrics \/ AggregateQcMetrics

QcSpec == QcInit /\ [][QcNext]_vars

\* C26: in every row of the flagged table, outlier_count is the number of
\* the seven flags that are true, and outlier_any holds exactly when
\* outlier_count > 0.
C26_CountMatchesFlags ==
    pc = "qc_done" =>
        \A i \in 1..Len(qc_df) :
            /\ qc_df[i].outlier_count =
                 Cardinality({c \in DOMAIN qc_df[i].flags : qc_df[i].flags[c]})
            /\ qc_df[i].outlier_any <=> qc_df[i].outlier_count > 0

(***************************************************************************)
(* prepare_adni_data.py: organize_dataset and create_bids_filename         *)
(*                                                                         *)
(* manifest holds the rows processed so far, bids_filenames what           *)
(* create_bids_filename returned for each, output_dir the entries of the   *)
(* output directory by name.                                               *)
(***************************************************************************)
UpperCase ==
    <<"A", "B", "C", "D", "E", "F", "G", "H", "I", "J", "K", "L", "M",
      "N", "O", "P", "Q", "R", "S", "T", "U", "V", "W", "X", "Y", "Z">>

LowerCase ==
    <<"a", "b", "c", "d", "e", "f", "g", "h", "i", "j", "k", "l", "m",
      "n", "o", "p", "q", "r", "s", "t", "u", "v", "w", "x", "y", "z">>

\* s.lower()
Lower(s) ==
    [i \in 1..Len(s) |->
        IF \E u \in 1..26 : UpperCase[u] = s[i]
        THEN LowerCase[CHOOSE u \in 1..26 : UpperCase[u] = s[i]]
        ELSE s[i]]

\* The Visit cell of a manifest row that has none: the float NaN.
VisitNaN == <<"nan">>

\* visit_map.get(visit, visit.lower()) for a str visit
BaseSession(visit) ==
    CASE visit = <<"S", "C", "M", "R", "I">> -> <<"b", "l">>
      [] visit = <<"M", "1", "2">> -> <<"m", "1", "2">>
      [] visit = <<"M", "2", "4">> -> <<"m", "2", "4">>
      [] visit = <<"T", "A", "U">> -> <<"t", "a", "u">>
      [] visit = <<"T", "A", "U", "2">> -> <<"t", "a", "u", "2">>
      [] OTHER -> Lower(visit)

\* d.get(key, 0)
GetCount(d, key) == IF key \in DOMAIN d THEN d[key] ELSE 0

\* The dict d after d[key] = value.
SetItem(d, key, value) ==
    [k \in DOMAIN d \cup {key} |-> IF k = key THEN value ELSE d[k]]

\* map_visit_to_session(visit, acq_date, subject_visits): the session name
\* and subject_visits as the call leaves it.
MapVisitToSession(visit, subject_visits) ==
    LET visit_count == GetCount(subject_visits, visit)
    IN  [session |-> IF visit_count > 0
                     THEN BaseSession(visit) \o <<"_">> \o FormatInt(visit_count + 1)
                     ELSE BaseSession(visit),
         subject_visits |-> SetItem(subject_visits, visit, visit_count + 1)]

\* create_bids_filename(row, subject_visits_dict): raised is the
\* AttributeError of visit.lower() on a Visit that is not a str.
CreateBidsFilename(row, visits_dict) ==
    LET initialised == IF row.subject \in DOMAIN visits_dict THEN visits_dict
                       ELSE SetItem(visits_dict, row.subject, EmptyDict)
        mapped == MapVisitToSession(row.visit, initialised[row.subject])
    IN  IF row.visit = VisitNaN
        THEN [raised |-> TRUE, filename |-> <<>>, session |-> <<>>,
              subject_visits_dict |-> initialised]
        ELSE [raised |-> FALSE,
              filename |-> <<"s", "u", "b", "-">> \o row.subject \o <<"_", "s", "e", "s", "-">> \o mapped.session
                           \o <<"_", "T", "1", "w", ".", "n", "i", "i", ".", "g", "z">>,
              session |-> mapped.session,
              subject_visits_dict |->
                  SetItem(initialised, row.subject, mapped.subject_visits)]

\* The manifest rows of the model: subject, visit, image id, and what
\* find_nifti_file finds for the image ("gz", "nii", or "none").
ManifestRowDomain ==
    {[subject |-> <<"0", "1">>, visit |-> <<"S", "C", "M", "R", "I">>, image_id |-> "I1", source |-> "gz"],
     [subject |-> <<"0", "1">>, visit |-> <<"b", "l">>, image_id |-> "I2", source |-> "gz"],
     [subject |-> <<"0", "1">>, visit |-> <<"T", "A", "U">>, image_id |-> "I3", source |-> "nii"],
     [subject |-> <<"0", "1">>, visit |-> <<"T", "A", "U", "_", "2">>, image_id |-> "I4", source |-> "gz"],
     [subject |-> <<"0", "1">>, visit |-> <<"S", "C", "M", "R", "I">>, image_id |-> "I5", source |-> "none"],
     [subject |-> <<"0", "1">>, visit |-> VisitNaN, image_id |-> "I6", source |-> "gz"],
     [subject |-> <<"0", "2">>, visit |-> <<"S", "C", "M", "R", "I">>, image_id |-> "I7", source |-> "gz"]}

\* Entries of the output directory: a regular file, a symlink whose target
\* exists, a symlink whose target is gone.  data names the image the entry
\* gives when read.
FileEntry(image_id) == [kind |-> "file", data |-> image_id]

LinkEntry(image_id) == [kind |-> "link", data |-> image_id]

DanglingLink == [kind |-> "dangling", data |-> "none"]

\* output_file.exists(): follows symlinks, so False for a dangling one.
Exists(dir, name) == name \in DOMAIN dir /\ dir[name].kind # "dangling"

\* What earlier runs may have left in the output directory.
EarlierOutputDirs ==
    {EmptyDict,
     SetItem(EmptyDict, <<"s", "u", "b", "-", "0", "1", "_", "s", "e", "s", "-", "b", "l", "_", "T", "1", "w", ".", "n", "i", "i", ".", "g", "z">>, FileEntry("I0")),
     SetItem(EmptyDict, <<"s", "u", "b", "-", "0", "1", "_", "s", "e", "s", "-", "b", "l", "_", "T", "1", "w", ".", "n", "i", "i", ".", "g", "z">>, DanglingLink)}

EmptyStats ==
    [processed |-> 0, skipped |-> 0, errors |-> 0, subjects |-> {},
     sessions_per_subject |-> EmptyDict]

\* stats after a row was processed.
Processed(st, row, session) ==
    [st EXCEPT !.processed = @ + 1,
               !.subjects = @ \cup {row.subject},
               !.sessions_per_subject =
                   SetItem(@, row.subject,
                           (IF row.subject \in DOMAIN @ THEN @[row.subject] ELSE <<>>)
                           \o <<session>>)]

\* The copy-or-link part of the loop body for a target that exists() says
\* is absent.  A symlink cannot be created over a dangling one
\* (FileExistsError); a copy onto a dangling symlink writes through it
\* when the directory of its target still exists (target_dir) and fails
\* with FileNotFoundError when not.
CopyOrLink(dir, name, row, links, target_dir) ==
    IF name \in DOMAIN dir
    THEN IF links \/ ~target_dir
         THEN [raised |-> TRUE, dir |-> dir]
         ELSE [raised |-> FALSE, dir |-> SetItem(dir, name, LinkEntry(row.image_id))]
    ELSE [raised |-> FALSE,
          dir |-> SetItem(dir, name, IF links THEN LinkEntry(row.image_id)
                                     ELSE FileEntry(row.image_id))]

AdniInit ==
    /\ pc = "adni_rows"
    /\ create_links \in BOOLEAN
    /\ manifest = <<>>
    /\ subject_visits_dict = EmptyDict
    /\ bids_filenames = <<>>
    /\ output_dir \in EarlierOutputDirs
    /\ stats = EmptyStats
    /\ LongIdle /\ QcIdle /\ HeurIdle

\* One iteration of the loop of organize_dataset.
ProcessRow ==
    /\ pc = "adni_rows"
    /\ Len(manifest) < MaxManifestRows
    /\ \E row \in ManifestRowDomain, target_dir \in BOOLEAN :
         LET named == CreateBidsFilename(row, subject_visits_dict)
             copied == CopyOrLink(output_dir, named.filename, row, create_links, target_dir)
         IN  /\ manifest' = Append(manifest, row)
             /\ subject_visits_dict' = named.subject_visits_dict
             /\ bids_filenames' =
                  Append(bids_filenames,
                         IF named.raised THEN NoStr ELSE Some(named.filename))
             /\ IF named.raised
                THEN /\ stats' = [stats EXCEPT !.errors = @ + 1]
                     /\ output_dir' = output_dir
                ELSE IF row.source = "none" \/ Exists(output_dir, named.filename)
                THEN /\ stats' = [stats EXCEPT !.skipped = @ + 1]
                     /\ output_dir' = output_dir
                ELSE IF copied.raised
                THEN /\ stats' = [stats EXCEPT !.errors = @ + 1]
                     /\ output_dir' = output_dir
                ELSE /\ stats' = Processed(stats, row, named.session)
                     /\ output_dir' = copied.dir
    /\ UNCHANGED <<pc, create_links, df, scipy_checks_x, slope_rows, change_rows,
                   output_slopes, output_percent, subject_id, parsed, qc_vars, heur_vars>>

\* The end of the loop: the summary, and file_list.txt with the names
\* output_path.glob("*.nii.gz") gives (every entry of the model).
WriteFileList ==
    /\ pc = "adni_rows"
    /\ pc' = "adni_done"
    /\ output_dir' = SetItem(output_dir, <<"f", "i", "l", "e", "_", "l", "i", "s", "t", ".", "t", "x", "t">>,
                             [kind |-> "list", data |-> DOMAIN output_dir \ {<<"f", "i", "l", "e", "_", "l", "i", "s", "t", ".", "t", "x", "t">>}])
    /\ UNCHANGED <<create_links, manifest, subject_visits_dict, bids_filenames, stats,
                   df, scipy_checks_x, slope_rows, change_rows,
                   output_slopes, output_percent, subject_id, parsed, qc_vars, heur_vars>>

AdniNext == ProcessRow \/ WriteFileList

AdniSpec == AdniInit /\ [][AdniNext]_vars

\* s ends with suffix.
EndsWith(s, suffix) ==
    Len(s) >= Len(suffix) /\ SubSeq(s, Len(s) - Len(suffix) + 1, Len(s)) = suffix

\* The number of rows up to row j with the subject and the visit of row j.
VisitRank(j) ==
    Cardinality({i \in 1..j : /\ manifest[i].subject = manifest[j].subject
                              /\ manifest[i].visit = manifest[j].visit})

\* C27: the filenames create_bids_filename returns for the rows of one
\* subject are pairwise distinct, whatever the visit codes, and the k-th
\* row (k >= 2) of a visit code has the session suffix '_k'.
C27_CollisionFreeNames ==
    /\ \A i, j \in 1..Len(manifest) :
         /\ i < j
         /\ manifest[i].subject = manifest[j].subject
         /\ bids_filenames[i].some /\ bids_filenames[j].some
         => bids_filenames[i].s # bids_filenames[j].s
    /\ \A j \in 1..Len(manifest) :
         bids_filenames[j].some /\ VisitRank(j) >= 2 =>
             EndsWith(bids_filenames[j].s,
                      <<"_">> \o FormatInt(VisitRank(j)) \o <<"_", "T", "1", "w", ".", "n", "i", "i", ".", "g", "z">>)

\* C28: a row whose target name is already in the output directory is
\* counted as skipped and the directory is left as it was; and when
\* organize_dataset ends, processed + skipped + errors is the number of
\* manifest rows.
C28_NeverOverwrites ==
    /\ [](pc = "adni_done" =>
            stats.processed + stats.skipped + stats.errors = Len(manifest))
    /\ [][Len(manifest') = Len(manifest) + 1 =>
            LET target == bids_filenames'[Len(bids_filenames')]
            IN  target.some /\ target.s \in DOMAIN output_dir =>
                    /\ output_dir' = output_dir
                    /\ stats' = [stats EXCEPT !.skipped = @ + 1]]_vars

(***************************************************************************)
(* heuristic.py: infotodict                                                *)
(*                                                                         *)
(* seqinfo is the list of series heudiconv passes, info the dictionary     *)
(* infotodict returns.  A BIDS key is named by the variable that holds it. *)
(***************************************************************************)
\* The keys of info.
BidsKeys ==
    {"t1w", "t1w_ses", "t2w", "t2w_ses", "flair", "flair_ses", "bold", "bold_ses",
     "dwi", "dwi_ses", "fmap_mag", "fmap_mag_ses", "fmap_phase", "fmap_phase_ses"}

\* The session-style key of each modality.
SessionStyle ==
    [t1w |-> "t1w_ses", t2w |-> "t2w_ses", flair |-> "flair_ses", bold |-> "bold_ses",
     dwi |-> "dwi_ses", fmap_mag |-> "fmap_mag_ses", fmap_phase |-> "fmap_phase_ses"]

SessionKeys == {SessionStyle[k] : k \in DOMAIN SessionStyle}

\* any(pattern in series_desc for pattern in patterns)
AnyIn(series_desc, patterns) == \E pattern \in patterns : Contains(series_desc, pattern)

\* str(s.series_description).lower()
SeriesDesc(s) == Lower(s.series_description)

\* The first loop over seqinfo: has_session.
HasSession(seq) ==
    \E i \in DOMAIN seq :
        Contains(SeriesDesc(seq[i]), <<"s", "e", "s", "-">>) \/ Contains(SeriesDesc(seq[i]), <<"s", "e", "s", "s", "i", "o", "n">>)

IsT1(series_desc) ==
    /\ AnyIn(series_desc, {<<"t", "1">>, <<"m", "p", "r", "a", "g", "e">>, <<"t", "1", "w">>, <<"s", "p", "g", "r">>})
    /\ ~AnyIn(series_desc, {<<"t", "2">>, <<"f", "l", "a", "i", "r">>, <<"s", "c", "o", "u", "t">>})

IsT2(series_desc) ==
    /\ AnyIn(series_desc, {<<"t", "2", "w">>, <<"t", "2", " ">>, <<" ", "t", "2">>})
    /\ ~AnyIn(series_desc, {<<"f", "l", "a", "i", "r">>, <<"t", "1">>})

IsFlair(series_desc) == Contains(series_desc, <<"f", "l", "a", "i", "r">>) \/ Contains(series_desc, <<"d", "a", "r", "k", " ", "f", "l", "u", "i", "d">>)

IsBold(series_desc) == AnyIn(series_desc, {<<"b", "o", "l", "d">>, <<"f", "m", "r", "i">>, <<"r", "e", "s", "t", "i", "n", "g">>, <<"r", "e", "s", "t">>, <<"f", "u", "n", "c">>})

IsDwi(series_desc) == AnyIn(series_desc, {<<"d", "w", "i">>, <<"d", "t", "i">>, <<"d", "i", "f", "f", "u", "s", "i", "o", "n">>})

IsFieldMap(series_desc) == Contains(series_desc, <<"f", "i", "e", "l", "d">>) \/ Contains(series_desc, <<"f", "m", "a", "p">>)

\* The inner test of the field map branch.
FieldMapKey(series_desc) ==
    IF Contains(series_desc, <<"p", "h", "a", "s", "e">>) THEN <<"fmap_phase">>
    ELSE IF Contains(series_desc, <<"m", "a", "g">>) \/ Contains(series_desc, <<"m", "a", "g", "n", "i", "t", "u", "d", "e">>) THEN <<"fmap_mag">>
    ELSE <<>>

\* Every modality test on its own, as a sequence of `if` statements.
MatchesIndependentTests(series_desc) ==
    (IF IsT1(series_desc) THEN <<"t1w">> ELSE <<>>)
    \o (IF IsT2(series_desc) THEN <<"t2w">> ELSE <<>>)
    \o (IF IsFlair(series_desc) THEN <<"flair">> ELSE <<>>)
    \o (IF IsBold(series_desc) THEN <<"bold">> ELSE <<>>)
    \o (IF IsDwi(series_desc) THEN <<"dwi">> ELSE <<>>)
    \o (IF IsFieldMap(series_desc) THEN FieldMapKey(series_desc) ELSE <<>>)

\* The if / elif chain of the second loop: the modalities the series is
\* appended to, in the order of the appends.
Matches(series_desc) ==
    IF IsT1(series_desc) THEN <<"t1w">>
    ELSE IF IsT2(series_desc) THEN <<"t2w">>
    ELSE IF IsFlair(series_desc) THEN <<"flair">>
    ELSE IF IsBold(series_desc) THEN <<"bold">>
    ELSE IF IsDwi(series_desc) THEN <<"dwi">>
    ELSE IF IsFieldMap(series_desc) THEN FieldMapKey(series_desc)
    ELSE <<>>

\* info[key].append(series_id) for every modality of modalities, key being
\* the session-style key if has_session.
RECURSIVE AppendSeriesId(_, _, _, _)
AppendSeriesId(info_, modalities, has_session, series_id) ==
    IF modalities = <<>> THEN info_
    ELSE LET key == IF has_session THEN SessionStyle[Head(modalities)] ELSE Head(modalities)
         IN  AppendSeriesId([info_ EXCEPT ![key] = Append(@, series_id)],
                            Tail(modalities), has_session, series_id)

\* The second loop over seqinfo.
RECURSIVE MatchSeries(_, _, _)
MatchSeries(seq, has_session, info_) ==
    IF seq = <<>> THEN info_
    ELSE LET s == Head(seq)
         IN  IF s.is_derived \/ s.is_motion_corrected
             THEN MatchSeries(Tail(seq), has_session, info_)
             ELSE MatchSeries(Tail(seq), has_session,
                              AppendSeriesId(info_, Matches(SeriesDesc(s)), has_session,
                                             s.series_id))

\* infotodict(seqinfo)
Infotodict(seq) == MatchSeries(seq, HasSession(seq), [key \in BidsKeys |-> <<>>])

\* The series descriptions of the model.
SeriesDescriptions ==
    {<<"T", "1", " ", "M", "P", "R", "A", "G", "E">>, <<"t", "1", " ", "s", "c", "o", "u", "t">>, <<"t", "2", " ", "f", "l", "a", "i", "r">>, <<"a", "x", " ", "t", "2", "w">>, <<"r", "e", "s", "t", " ", "b", "o", "l", "d", " ", "s", "e", "s", "-", "0", "1">>, <<"d", "t", "i">>,
     <<"f", "m", "r", "i", " ", "f", "i", "e", "l", "d", "m", "a", "p", " ", "p", "h", "a", "s", "e">>, <<"f", "m", "a", "p", " ", "p", "h", "a", "s", "e">>, <<"f", "i", "e", "l", "d", " ", "m", "a", "g">>, <<"f", "m", "a", "p">>, <<"S", "e", "s", "s", "i", "o", "n", " ", "2", " ", "s", "p", "g", "r">>, <<"t", "1", " ", "t", "2", " ">>}

\* The series of the model: every description as an original series, and
\* two series that are derived or motion corrected.
SeriesDomain ==
    {[series_description |-> d, is_derived |-> FALSE, is_motion_corrected |-> FALSE] :
        d \in SeriesDescriptions}
    \cup {[series_description |-> <<"T", "1", " ", "M", "P", "R", "A", "G", "E">>, is_derived |-> TRUE, is_motion_corrected |-> FALSE],
          [series_description |-> <<"r", "e", "s", "t", " ", "b", "o", "l", "d", " ", "s", "e", "s", "-", "0", "1">>, is_derived |-> FALSE, is_motion_corrected |-> TRUE]}

HeurInit ==
    /\ pc = "heur_seq"
    /\ seqinfo = <<>>
    /\ info = EmptyDict
    /\ LongIdle /\ QcIdle /\ AdniIdle

\* heudiconv adds one series to seqinfo; its series_id is its number.
AppendSeries ==
    /\ pc = "heur_seq"
    /\ Len(seqinfo) < MaxSeries
    /\ \E s \in SeriesDomain :
         seqinfo' = Append(seqinfo,
                           [series_id |-> Len(seqinfo) + 1,
                            series_description |-> s.series_description,
                            is_derived |-> s.is_derived,
                            is_motion_corrected |-> s.is_motion_corrected])
    /\ UNCHANGED <<pc, info, df, scipy_checks_x, slope_rows, change_rows,
                   output_slopes, output_percent, subject_id, parsed, qc_vars, adni_vars>>

\* heudiconv calls infotodict(seqinfo).
CallInfotodict ==
    /\ pc = "heur_seq"
    /\ pc' = "heur_done"
    /\ info' = Infotodict(seqinfo)
    /\ UNCHANGED <<seqinfo, df, scipy_checks_x, slope_rows, change_rows,
                   output_slopes, output_percent, subject_id, parsed, qc_vars, adni_vars>>

HeurNext == AppendSeries \/ CallInfotodict

HeurSpec == HeurInit /\ [][HeurNext]_vars

\* The keys whose list holds the id of series i.
KeysOf(i) ==
    {key \in BidsKeys : \E p \in DOMAIN info[key] : info[key][p] = seqinfo[i].series_id}

\* The number of times the id of series i was appended.
TimesAppended(i) ==
    Cardinality({kp \in UNION {{<<key, p>> : p \in DOMAIN info[key]} : key \in BidsKeys} :
                    info[kp[1]][kp[2]] = seqinfo[i].series_id})

\* C29: when infotodict has returned, the id of every series is in at most
\* one key's list (and there once), the id of a derived or a motion
\* corrected series is in none, and the keys with a series are all
\* session-style keys or all keys without a session.
C29_OneKeyPerSeries ==
    pc = "heur_done" =>
        /\ \A i \in DOMAIN seqinfo :
             /\ TimesAppended(i) <= 1
             /\ seqinfo[i].is_derived \/ seqinfo[i].is_motion_corrected => KeysOf(i) = {}
        /\ \/ \A key \in BidsKeys : info[key] # <<>> => key \in SessionKeys
           \/ \A key \in BidsKeys : info[key] # <<>> => key \notin SessionKeys

\* infotodict has returned for two series, a motion corrected one that
\* names a session and one that passes the BOLD test and the field map
\* test: the second is under the session-style BOLD key only.
C29_Witness ==
    /\ pc = "heur_done"
    /\ Len(seqinfo) = 2
    /\ seqinfo[1].is_motion_corrected
    /\ seqinfo[2].series_description = <<"f", "m", "r", "i", " ", "f", "i", "e", "l", "d", "m", "a", "p", " ", "p", "h", "a", "s", "e">>
    /\ KeysOf(1) = {}
    /\ KeysOf(2) = {"bold_ses"}

====
